---- MODULE Spec2Model ----
(***************************************************************************)
(* Sieve: the level phase controller (GameManager) of the sieve game, its  *)
(* connectivity analyzer, weld aggregator and clear detector, and the App  *)
(* that selects the level and pauses the controller.                       *)
(*                                                                         *)
(* Two variants of the controller live in the repository and both are      *)
(* modelled; the variable `variant` says which one a behaviour runs:       *)
(*   "part_000"  src/unnamed/part_000 with getConnectivityData (part_001)  *)
(*   "GameWorld" src/components/GameWorld.tsx with checkConnectivity       *)
(*               (src/utils.ts)                                            *)
(*                                                                         *)
(* Numbers: lengths and times are integers in units of 0.05 (1.2 is 24,    *)
(* 1.4 is 28, 1.5 is 30, 1.8 is 36, 1.85 is 37, -2 is -40). The arithmetic *)
(* is exact; the rounding of IEEE doubles is not modelled.                 *)
(*                                                                         *)
(* Ids: the id `stone-i` (`bean-i`) is the natural number i in the stone   *)
(* (bean) position map; Object.keys is taken in id order.                  *)
(*                                                                         *)
(* React: useState values (phase, weldedData, config, connectedIds,        *)
(* isFullyConnected; the App's phase and level) change only at a commit.   *)
(* A set-state call made from the frame loop is queued (pend, appPend) and *)
(* applied, the whole batch at once, by a later commit step; frame ticks   *)
(* and position callbacks may run in between and see the values of the     *)
(* last commit. useRef values change at once.                              *)
(***************************************************************************)
EXTENDS Integers, Sequences, FiniteSets, TLC

VARIABLES
  variant,          \* which controller variant runs
  level,            \* App: level (useState)
  appPhase,         \* App: phase (useState, GamePhase)
  appPend,          \* App: queued setPhase from handleLevelComplete
  config,           \* GameManager: config (useState)
  phase,            \* GameManager: phase (useState, LevelPhase)
  weldedData,       \* GameManager: weldedData (useState), None or Some(d)
  connectedIds,     \* GameManager (part_000): connectedIds (useState)
  isFullyConnected, \* GameManager (part_000): isFullyConnected (useState)
  pend,             \* GameManager: queued set-state calls, not yet committed
  stonePositions,   \* GameManager: stonePositions.current
  beanPositions,    \* GameManager: beanPositions.current
  connectedTime,    \* GameManager: connectedTime.current
  clearedTime,      \* GameManager: clearedTime.current
  clusterPosRef,    \* GameManager: clusterPosRef.current, None or Some(p)
  weldCount,        \* history: descriptors built by handleWeld in this level
  completeCount,    \* history: onLevelComplete invocations in this level
  connRun,          \* history: deltas of the current unbroken connected run
  clearRun,         \* history: deltas of the current unbroken cleared run
  args,             \* a direct call of an exported function: its arguments
  ret               \* a direct call of an exported function: what it returned

vars == <<variant, level, appPhase, appPend, config, phase, weldedData,
          connectedIds, isFullyConnected, pend, stonePositions, beanPositions,
          connectedTime, clearedTime, clusterPosRef, weldCount, completeCount,
          connRun, clearRun, args, ret>>

gmVars == <<config, phase, weldedData, connectedIds, isFullyConnected, pend,
            stonePositions, beanPositions, connectedTime, clearedTime,
            clusterPosRef>>

histVars == <<weldCount, completeCount, connRun, clearRun>>

\* ------------------------------------------------------------------ bounds

\* Beans whose position callbacks are modelled (bean-0 .. bean-(MaxBeans-1)).
MaxBeans == 1
\* Levels the main specification plays through before it stops advancing.
MaxPlayLevel == 2
\* Welds (level-complete calls) that may pile up before the pending commit.
MaxRepeat == 2

\* Tick deltas (0.6 s and 0.9 s).
Deltas == {12, 18}
\* Positions a stone reports: stone-0 and stone-1 rest at the origin, the
\* other stones are at the origin or 3.6 away from it.
StonePos(id) == IF id < 2 THEN {<<0, 0, 0>>} ELSE {<<0, 0, 0>>, <<72, 0, 0>>}
\* Positions a bean reports: 6 from the reported cluster position and exactly
\* one radius (24) from it.
BeanPos == {<<30, 0, 0>>, <<48, 0, 0>>}
\* Positions the welded cluster reports (no weld-time center of the model).
ClusterPos == {<<24, 0, 0>>}

Variants == {"part_000", "GameWorld"}

\* --------------------------------------------------------------- constants

TOTAL_LEVELS == 20
WeldThreshold == 24
WeldMargin == 24
FloorY == -40

ConnThreshold(v) == IF v = "part_000" THEN 28 ELSE 37
ClearThreshold(v) == IF v = "part_000" THEN 30 ELSE 36

GamePhase == {"MENU", "PLAYING", "LEVEL_COMPLETE", "GAME_OVER"}
LevelPhase == {"GATHERING", "WELDING", "CLEARING"}

\* ----------------------------------------------------------------- helpers

None == <<>>
Some(x) == <<x>>
IsNone(o) == Len(o) = 0
IsSome(o) == Len(o) = 1
Val(o) == o[1]

Min(a, b) == IF a < b THEN a ELSE b

EmptyMap == [i \in {} |-> <<0, 0, 0>>]
MapSet(m, id, p) == [i \in DOMAIN m \cup {id} |-> IF i = id THEN p ELSE m[i]]

RECURSIVE SortedSeq(_)
SortedSeq(S) ==
  IF S = {} THEN <<>>
  ELSE LET lo == CHOOSE x \in S : \A y \in S : x <= y
       IN <<lo>> \o SortedSeq(S \ {lo})

\* Object.keys of a position map.
Keys(m) == SortedSeq(DOMAIN m)

RECURSIVE SumSeq(_)
SumSeq(s) == IF s = <<>> THEN 0 ELSE Head(s) + SumSeq(Tail(s))

\* Math.sqrt on the squares that occur; rounded down elsewhere (m is the
\* argument, bound as a value).
Sqrt(n) ==
  CHOOSE r \in {CHOOSE s \in 0..m : s * s <= m /\ (s + 1) * (s + 1) > m :
                  m \in {n}} : TRUE

Dist2(p, q) ==
  (p[1] - q[1]) * (p[1] - q[1]) + (p[2] - q[2]) * (p[2] - q[2])
    + (p[3] - q[3]) * (p[3] - q[3])

\* The distance test with <= in place of <.
Near_Closed(p, q, threshold) == Dist2(p, q) <= threshold * threshold

\* posA.distanceTo(posB) < threshold
Near(p, q, threshold) == Dist2(p, q) < threshold * threshold

\* ------------------------------------------------------- level config

\* generateLevelConfig with `level / 3` in place of `(level - 1) / 3`.
generateLevelConfig_NoMinusOne(l) ==
  [levelNumber |-> l,
   stoneCount |-> Min(3 + (l \div 3), 12),
   beanCount |-> Min(15 + (l - 1) * 4, 100),
   beanTypes |-> IF l >= 16 THEN 2 ELSE 1]

generateLevelConfig(l) ==
  [levelNumber |-> l,
   stoneCount |-> Min(3 + ((l - 1) \div 3), 12),
   beanCount |-> Min(15 + (l - 1) * 4, 100),
   beanTypes |-> IF l >= 16 THEN 2 ELSE 1]

\* ------------------------------------------------- connectivity analyzer

\* The nested loops with the inner one starting at i in place of i + 1.
RECURSIVE IndexPairs_FromI(_, _, _)
IndexPairs_FromI(i, j, n) ==
  IF i > n THEN <<>>
  ELSE IF j > n THEN IndexPairs_FromI(i + 1, i + 1, n)
  ELSE <<<<i, j>>>> \o IndexPairs_FromI(i, j + 1, n)

\* The index pairs (i, j), i < j, in the order of the two nested loops.
RECURSIVE IndexPairs(_, _, _)
IndexPairs(i, j, n) ==
  IF i > n THEN <<>>
  ELSE IF j > n THEN IndexPairs(i + 1, i + 2, n)
  ELSE <<<<i, j>>>> \o IndexPairs(i, j + 1, n)

\* The pairs pushed by the graph-building loops, in push order. `guarded` is
\* the `if (!positions[idA] || !positions[idB]) continue` of part_001.
RECURSIVE EdgesOf(_, _, _, _, _)
EdgesOf(positions, ids, threshold, guarded, pairs) ==
  IF pairs = <<>> THEN <<>>
  ELSE LET idA == ids[Head(pairs)[1]]
           idB == ids[Head(pairs)[2]]
           rest == EdgesOf(positions, ids, threshold, guarded, Tail(pairs))
       IN IF guarded /\ (idA \notin DOMAIN positions \/ idB \notin DOMAIN positions)
          THEN rest
          ELSE IF Near(positions[idA], positions[idB], threshold)
               THEN <<<<idA, idB>>>> \o rest
               ELSE rest

\* adj[id]: the neighbours of id in push order.
RECURSIVE Adj(_, _)
Adj(conns, id) ==
  IF conns = <<>> THEN <<>>
  ELSE LET e == Head(conns)
       IN (IF e[1] = id THEN <<e[2]>> ELSE <<>>)
            \o (IF e[2] = id THEN <<e[1]>> ELSE <<>>)
            \o Adj(Tail(conns), id)

\* The inner loop of the traversal: mark and enqueue the unvisited neighbours.
RECURSIVE VisitNeighbors(_, _, _)
VisitNeighbors(nb, visited, work) ==
  IF nb = <<>> THEN [visited |-> visited, work |-> work]
  ELSE IF Head(nb) \in visited
       THEN VisitNeighbors(Tail(nb), visited, work)
       ELSE VisitNeighbors(Tail(nb), visited \cup {Head(nb)}, Append(work, Head(nb)))

\* part_001: while (queue.length > 0) { current = queue.shift() ... }
\* (r, the state after one iteration, is bound as a value, so that each
\* iteration is evaluated once.)
RECURSIVE BfsQueue(_, _, _)
BfsQueue(queue, visited, conns) ==
  IF queue = <<>> THEN visited
  ELSE CHOOSE result \in
         {BfsQueue(r.work, r.visited, conns) :
            r \in {VisitNeighbors(Adj(conns, Head(queue)), visited,
                                  Tail(queue))}} : TRUE

\* The stack traversal that marks the neighbours of ids[0] and pushes none.
DfsStack_NoPush(stack, visited, conns) ==
  IF stack = <<>> THEN visited
  ELSE VisitNeighbors(Adj(conns, stack[Len(stack)]), visited, <<>>).visited

\* utils.ts: while (stack.length > 0) { current = stack.pop() ... }
RECURSIVE DfsStack(_, _, _)
DfsStack(stack, visited, conns) ==
  IF stack = <<>> THEN visited
  ELSE CHOOSE result \in
         {DfsStack(r.work, r.visited, conns) :
            r \in {VisitNeighbors(Adj(conns, stack[Len(stack)]), visited,
                                  SubSeq(stack, 1, Len(stack) - 1))}} : TRUE

\* getConnectivityData comparing the visited count with the number of listed
\* ids that have a position.
getConnectivityData_CountPositioned(positions, ids, threshold) ==
  IF Len(ids) = 0 THEN [isFullyConnected |-> FALSE, connections |-> <<>>]
  ELSE IF Len(ids) = 1 THEN [isFullyConnected |-> TRUE, connections |-> <<>>]
  ELSE CHOOSE result \in
         {[isFullyConnected |->
             Cardinality(BfsQueue(<<ids[1]>>, {ids[1]}, conns))
               = Cardinality({i \in 1..Len(ids) : ids[i] \in DOMAIN positions}),
           connections |-> conns] :
            conns \in {EdgesOf(positions, ids, threshold, TRUE,
                               IndexPairs(1, 2, Len(ids)))}} : TRUE

\* getConnectivityData with the convention of checkConnectivity for an empty
\* id list. (In both, conns, the connections list after the two loops, is
\* bound as a value.)
getConnectivityData_EmptyTrue(positions, ids, threshold) ==
  IF Len(ids) <= 1 THEN [isFullyConnected |-> TRUE, connections |-> <<>>]
  ELSE CHOOSE result \in
         {[isFullyConnected |->
             Cardinality(BfsQueue(<<ids[1]>>, {ids[1]}, conns)) = Len(ids),
           connections |-> conns] :
            conns \in {EdgesOf(positions, ids, threshold, TRUE,
                               IndexPairs(1, 2, Len(ids)))}} : TRUE

getConnectivityData(positions, ids, threshold) ==
  IF Len(ids) = 0 THEN [isFullyConnected |-> FALSE, connections |-> <<>>]
  ELSE IF Len(ids) = 1 THEN [isFullyConnected |-> TRUE, connections |-> <<>>]
  ELSE CHOOSE result \in
         {[isFullyConnected |->
             Cardinality(BfsQueue(<<ids[1]>>, {ids[1]}, conns)) = Len(ids),
           connections |-> conns] :
            conns \in {EdgesOf(positions, ids, threshold, TRUE,
                               IndexPairs(1, 2, Len(ids)))}} : TRUE

checkConnectivity(positions, ids, threshold) ==
  IF Len(ids) <= 1 THEN TRUE
  ELSE CHOOSE result \in
         {Cardinality(DfsStack(<<ids[1]>>, {ids[1]}, conns)) = Len(ids) :
            conns \in {EdgesOf(positions, ids, threshold, FALSE,
                               IndexPairs(1, 2, Len(ids)))}} : TRUE

\* checkConnectivity throws a TypeError: `...positions[id]` spreads undefined
\* for an id of a compared pair that has no entry in the position map.
checkConnectivityThrows(positions, ids) ==
  /\ Len(ids) > 1
  /\ \E i \in 1..Len(ids) : ids[i] \notin DOMAIN positions

\* The connectivity result of the tick with the flag always true.
Connectivity_AnyTrue(v, positions, ids) ==
  [isFullyConnected |-> TRUE, connections |-> <<>>]

\* The connectivity call of the gathering branch, per variant.
Connectivity(v, positions, ids) ==
  IF v = "part_000"
  THEN getConnectivityData(positions, ids, ConnThreshold(v))
  ELSE [isFullyConnected |-> checkConnectivity(positions, ids, ConnThreshold(v)),
        connections |-> <<>>]

\* newConnectedSet: both ends of every reported connection.
RECURSIVE Endpoints(_)
Endpoints(conns) ==
  IF conns = <<>> THEN {}
  ELSE {Head(conns)[1], Head(conns)[2]} \cup Endpoints(Tail(conns))

\* ------------------------------------------------------- weld aggregator

RECURSIVE SumCoord(_, _, _)
SumCoord(positions, ids, k) ==
  IF ids = <<>> THEN 0
  ELSE positions[Head(ids)][k] + SumCoord(positions, Tail(ids), k)

\* The running maximum overwritten by every stone (`maxDist = dist` without
\* its test): the distance of the last stone enumerated.
RECURSIVE MaxDist_Last(_, _, _)
MaxDist_Last(positions, ids, center) ==
  IF ids = <<>> THEN 0
  ELSE IF Tail(ids) = <<>>
       THEN Sqrt(Dist2(positions[Head(ids)], center))
       ELSE MaxDist_Last(positions, Tail(ids), center)

RECURSIVE MaxDist(_, _, _)
MaxDist(positions, ids, center) ==
  IF ids = <<>> THEN 0
  ELSE LET dist == Sqrt(Dist2(positions[Head(ids)], center))
           rest == MaxDist(positions, Tail(ids), center)
       IN IF dist > rest THEN dist ELSE rest

\* The descriptor with the coordinate sums left undivided.
WeldDescriptor_NoDivide(positions) ==
  LET ids == Keys(positions)
      n == Len(ids)
      center == <<SumCoord(positions, ids, 1),
                  SumCoord(positions, ids, 2),
                  SumCoord(positions, ids, 3)>>
  IN [center |-> center,
      stones |-> [i \in 1..n |->
                    [offset |-> <<positions[ids[i]][1] - center[1],
                                  positions[ids[i]][2] - center[2],
                                  positions[ids[i]][3] - center[3]>>,
                     rotation |-> <<0, 0, 0>>,
                     scale |-> 1]],
      radius |-> MaxDist(positions, ids, center) + WeldMargin]

\* The descriptor handleWeld builds when Object.keys enumerates the stone map
\* as ids (non-empty). The mean is a real division; the stone positions of
\* the model keep it exact.
WeldDescriptorOf(positions, ids) ==
  LET n == Len(ids)
      center == <<SumCoord(positions, ids, 1) \div n,
                  SumCoord(positions, ids, 2) \div n,
                  SumCoord(positions, ids, 3) \div n>>
  IN [center |-> center,
      stones |-> [i \in 1..n |->
                    [offset |-> <<positions[ids[i]][1] - center[1],
                                  positions[ids[i]][2] - center[2],
                                  positions[ids[i]][3] - center[3]>>,
                     rotation |-> <<0, 0, 0>>,
                     scale |-> 1]],
      radius |-> MaxDist(positions, ids, center) + WeldMargin]

\* The descriptor with the margin left out of the radius.
WeldDescriptor_NoMargin(positions) ==
  LET d == WeldDescriptorOf(positions, Keys(positions))
  IN [d EXCEPT !.radius = d.radius - WeldMargin]

\* The descriptor handleWeld builds from the stone map, enumerated in id
\* order.
WeldDescriptor(positions) == WeldDescriptorOf(positions, Keys(positions))

NoPend == [phase |-> None, weldedData |-> None, connectedIds |-> None,
           isFullyConnected |-> None]

\* handleWeld with the conceptual WELDING value as its target phase.
handleWeld_Welding(positions, pd) ==
  IF Len(Keys(positions)) = 0 THEN pd
  ELSE [pd EXCEPT !.weldedData = Some(Some(WeldDescriptor(positions))),
                  !.phase = Some("WELDING")]

\* handleWeld without its setWeldedData call.
handleWeld_PhaseOnly(positions, pd) ==
  IF Len(Keys(positions)) = 0 THEN pd
  ELSE [pd EXCEPT !.phase = Some("CLEARING")]

\* handleWeld: the set-state calls it queues on top of the pending batch pd.
handleWeld(positions, pd) ==
  IF Len(Keys(positions)) = 0 THEN pd
  ELSE [pd EXCEPT !.weldedData = Some(Some(WeldDescriptor(positions))),
                  !.phase = Some("CLEARING")]

\* --------------------------------------------------------- clear detector

\* The inside test with the height compared to 0 in place of -2.
BeanInside_AboveZero(v, b, clusterPos, radius) ==
  LET dx == b[1] - clusterPos[1]
      dz == b[3] - clusterPos[3]
  IN IF v = "part_000"
     THEN b[2] > 0 /\ (dx * dx + dz * dz) < radius * radius
     ELSE (dx * dx + dz * dz) < radius * radius

\* The inside test with <= in place of < on the squared distance.
BeanInside_Closed(v, b, clusterPos, radius) ==
  LET dx == b[1] - clusterPos[1]
      dz == b[3] - clusterPos[3]
  IN IF v = "part_000"
     THEN b[2] > FloorY /\ (dx * dx + dz * dz) <= radius * radius
     ELSE (dx * dx + dz * dz) <= radius * radius

\* The inside test with >= in place of > on the height.
BeanInside_FloorIncluded(v, b, clusterPos, radius) ==
  LET dx == b[1] - clusterPos[1]
      dz == b[3] - clusterPos[3]
  IN IF v = "part_000"
     THEN b[2] >= FloorY /\ (dx * dx + dz * dz) < radius * radius
     ELSE (dx * dx + dz * dz) < radius * radius

\* The inside test of the clearing loop, per variant.
BeanInside(v, b, clusterPos, radius) ==
  LET dx == b[1] - clusterPos[1]
      dz == b[3] - clusterPos[3]
  IN IF v = "part_000"
     THEN b[2] > FloorY /\ (dx * dx + dz * dz) < radius * radius
     ELSE (dx * dx + dz * dz) < radius * radius

\* The clearing condition without its `beanIds.length > 0` conjunct.
ClearCondition_NoCount(v, beans, clusterPos, radius) ==
  \A id \in DOMAIN beans : ~BeanInside(v, beans[id], clusterPos, radius)

\* `!anyInside && beanIds.length > 0` (part_000),
\* `allOutside && beanIds.length > 0` (GameWorld.tsx).
ClearCondition(v, beans, clusterPos, radius) ==
  /\ \A id \in DOMAIN beans : ~BeanInside(v, beans[id], clusterPos, radius)
  /\ Cardinality(DOMAIN beans) > 0

\* ---------------------------------------------------- hysteresis timers

\* The gate with `>` in place of `===`.
AllReported_Above(positions, cfg) == Len(Keys(positions)) > cfg.stoneCount

\* The gate with `ids.length > 0` in place of the count comparison.
AllReported_Any(positions, cfg) == Len(Keys(positions)) > 0

\* ids.length === config.stoneCount
AllReported(positions, cfg) == Len(Keys(positions)) = cfg.stoneCount

\* The accumulator without its reset branch.
NextConnectedTime_Keep(ct, connected, delta) ==
  IF connected THEN ct + delta ELSE ct

NextConnectedTime(ct, connected, delta) == IF connected THEN ct + delta ELSE 0

\* The weld test with >= in place of >.
WeldDue_AtLeast(ct) == ct >= WeldThreshold

WeldDue(ct) == ct > WeldThreshold

\* The accumulator without its reset branch.
NextClearedTime_Keep(ct, cleared, delta) ==
  IF cleared THEN ct + delta ELSE ct

NextClearedTime(ct, cleared, delta) == IF cleared THEN ct + delta ELSE 0

CompleteDue(v, ct) == ct > ClearThreshold(v)

\* ------------------------------------------- what the claims speak of

\* The proximity graph of a position map: the ids reachable from the set S
\* along pairs at distance strictly less than the threshold.
RECURSIVE Reachable(_, _, _)
Reachable(S, positions, threshold) ==
  LET more == {b \in DOMAIN positions :
                 \E a \in S : Dist2(positions[a], positions[b])
                                 < threshold * threshold}
  IN IF more \subseteq S THEN S
     ELSE Reachable(S \cup more, positions, threshold)

\* The stones that have reported form one connected component under the
\* variant's threshold (1.4 in part_000, 1.85 in GameWorld.tsx).
StonesConnected ==
  LET threshold == IF variant = "part_000" THEN 28 ELSE 37
  IN /\ DOMAIN stonePositions # {}
     /\ \A a \in DOMAIN stonePositions :
          Reachable({a}, stonePositions, threshold) = DOMAIN stonePositions

\* The clearing condition: at least one bean, and no bean inside the cluster
\* radius around the reported cluster position (in part_000 a bean at or
\* below the floor height does not count as inside).
BeansCleared ==
  LET c == Val(clusterPosRef)
      r == Val(weldedData).radius
      inside(b) ==
        /\ (b[1] - c[1]) * (b[1] - c[1]) + (b[3] - c[3]) * (b[3] - c[3]) < r * r
        /\ (variant = "part_000" => b[2] > -40)
  IN /\ DOMAIN beanPositions # {}
     /\ \A id \in DOMAIN beanPositions : ~inside(beanPositions[id])

\* ------------------------------------------------------------ the App

\* GameWorld's isPaused prop, and the `!isPaused && <GameManager .../>` gate
\* under `phase !== GamePhase.MENU`.
IsPaused == appPhase # "PLAYING"

\* The gate without its `!isPaused &&` condition.
GameManagerExists_IgnorePause == appPhase # "MENU"

GameManagerExists == appPhase # "MENU" /\ ~IsPaused

\* The level effect without the reset of its two accumulators.
LevelEffect_KeepTimers(l) ==
  /\ config' = generateLevelConfig(l)
  /\ phase' = "GATHERING"
  /\ weldedData' = None
  /\ stonePositions' = EmptyMap
  /\ beanPositions' = EmptyMap
  /\ connectedTime' = connectedTime
  /\ clearedTime' = clearedTime
  /\ clusterPosRef' = None
  /\ isFullyConnected' = FALSE
  /\ connectedIds' = {}

\* The level effect: what `useEffect(..., [level])` leaves behind, the
\* set-state calls it queues committed.
LevelEffect(l) ==
  /\ config' = generateLevelConfig(l)
  /\ phase' = "GATHERING"
  /\ weldedData' = None
  /\ stonePositions' = EmptyMap
  /\ beanPositions' = EmptyMap
  /\ connectedTime' = 0
  /\ clearedTime' = 0
  /\ clusterPosRef' = None
  /\ isFullyConnected' = FALSE
  /\ connectedIds' = {}

\* A GameManager is mounted for level l: the useState and useRef initial
\* values, then the level effect of the mount.
MountGameManager(l) ==
  /\ LevelEffect(l)
  /\ pend' = NoPend
  /\ weldCount' = 0
  /\ completeCount' = 0
  /\ connRun' = <<>>
  /\ clearRun' = <<>>

\* The App and the GameManager as constructed: the useState and useRef
\* initial values.
Constructed ==
  /\ level = 1
  /\ appPhase = "MENU"
  /\ appPend = None
  /\ config = generateLevelConfig(1)
  /\ phase = "GATHERING"
  /\ weldedData = None
  /\ connectedIds = {}
  /\ isFullyConnected = FALSE
  /\ pend = NoPend
  /\ stonePositions = EmptyMap
  /\ beanPositions = EmptyMap
  /\ connectedTime = 0
  /\ clearedTime = 0
  /\ clusterPosRef = None
  /\ weldCount = 0
  /\ completeCount = 0
  /\ connRun = <<>>
  /\ clearRun = <<>>

Init ==
  /\ variant \in Variants
  /\ Constructed
  /\ args = None
  /\ ret = None

\* The three copies of startGame.
Apps == {"App.tsx", "part_002", "GameWorld.tsx"}
\* The device-motion API: DeviceOrientationEvent is not defined; it is
\* defined without a requestPermission function; the request resolves to
\* 'granted' or to 'denied'; the request throws.
MotionOutcomes == {"absent", "noRequest", "granted", "denied", "throws"}
\* The fullscreen API: requestFullscreen is not defined on the document
\* element; the document is in fullscreen already; the request resolves;
\* the request rejects.
FullscreenOutcomes == {"absent", "already", "resolves", "rejects"}

\* startGame of one copy in one browser: whether the call threw, and the
\* phase it has set, if any.
\*   App.tsx: window.DeviceOrientationEvent is read as a property and the
\*     request runs in try/catch; scrollTo in try/catch; then
\*     setPhase(PLAYING). No fullscreen request.
\*   part_002: setPhase(PLAYING) first; the fullscreen request and the
\*     permission request each in try/catch.
\*   GameWorld.tsx: toggleFullScreen() calls
\*     document.documentElement.requestFullscreen() outside any try (a
\*     TypeError if it is not defined), then
\*     `typeof DeviceOrientationEvent.requestPermission` (a ReferenceError if
\*     DeviceOrientationEvent is not defined); every path after these two
\*     ends in setPhase(PLAYING).
startGame(app, motion, fullscreen) ==
  IF app = "App.tsx"
  THEN [threw |-> FALSE, phase |-> Some("PLAYING")]
  ELSE IF app = "part_002"
  THEN [threw |-> FALSE, phase |-> Some("PLAYING")]
  ELSE IF fullscreen = "absent"
       THEN [threw |-> TRUE, phase |-> None]
       ELSE IF motion = "absent"
            THEN [threw |-> TRUE, phase |-> None]
            ELSE [threw |-> FALSE, phase |-> Some("PLAYING")]

\* The App of a GameManager variant (components/GameWorld.tsx holds its own).
AppOf(v) == IF v = "GameWorld" THEN "GameWorld.tsx" ELSE "App.tsx"

\* startGame from the button of the MENU overlay, in a browser in which it
\* reaches setPhase(GamePhase.PLAYING).
StartGame ==
  /\ appPhase = "MENU"
  /\ \E motion \in MotionOutcomes, fullscreen \in FullscreenOutcomes :
       startGame(AppOf(variant), motion, fullscreen).phase = Some("PLAYING")
  /\ appPhase' = "PLAYING"
  /\ MountGameManager(level)
  /\ UNCHANGED <<args, ret, variant, level, appPend>>

\* handleLevelComplete with GAME_OVER as the phase it sets.
handleLevelComplete_GameOver == Some("GAME_OVER")

\* handleLevelComplete: setPhase(GamePhase.LEVEL_COMPLETE), queued.
handleLevelComplete == Some("LEVEL_COMPLETE")

\* The App commits the queued phase; GameWorld is paused and the GameManager
\* unmounted, its queued set-state calls dropped.
AppCommit ==
  /\ IsSome(appPend)
  /\ appPhase' = Val(appPend)
  /\ appPend' = None
  /\ pend' = NoPend
  /\ UNCHANGED <<args, ret, variant, level, config, phase, weldedData, connectedIds,
                 isFullyConnected, stonePositions, beanPositions,
                 connectedTime, clearedTime, clusterPosRef>>
  /\ UNCHANGED histVars

\* nextLevel with `level > TOTAL_LEVELS` as its test.
nextLevel_Above ==
  /\ appPhase = "LEVEL_COMPLETE"
  /\ IF level > TOTAL_LEVELS
     THEN /\ level' = 1
          /\ appPhase' = "MENU"
          /\ UNCHANGED gmVars
          /\ UNCHANGED histVars
     ELSE /\ level' = level + 1
          /\ appPhase' = "PLAYING"
          /\ MountGameManager(level + 1)
  /\ UNCHANGED <<args, ret, variant, appPend>>

\* nextLevel, from the button of the LEVEL_COMPLETE overlay (the overlay is
\* rendered only while the App phase is LEVEL_COMPLETE; the click is flushed
\* before another one can be delivered).
nextLevel ==
  /\ appPhase = "LEVEL_COMPLETE"
  /\ IF level >= TOTAL_LEVELS
     THEN /\ level' = 1
          /\ appPhase' = "MENU"
          /\ UNCHANGED gmVars
          /\ UNCHANGED histVars
     ELSE /\ level' = level + 1
          /\ appPhase' = "PLAYING"
          /\ MountGameManager(level + 1)
  /\ UNCHANGED <<args, ret, variant, appPend>>

\* nextLevel while the level played is below the bound of the game model.
NextLevel ==
  /\ level < MaxPlayLevel
  /\ nextLevel

\* ------------------------------------------------- position callbacks

\* onUpdate of a Stone that replaces the map by the reported entry.
StoneOnUpdate_Replace(id, pos) ==
  /\ stonePositions' = [i \in {id} |-> pos]
  /\ UNCHANGED <<args, ret, variant, level, appPhase, appPend, config, phase, weldedData,
                 connectedIds, isFullyConnected, pend, beanPositions,
                 connectedTime, clearedTime, clusterPosRef>>
  /\ UNCHANGED histVars

\* onUpdate of a Stone: stonePositions.current[id] = pos.
StoneOnUpdate(id, pos) ==
  /\ stonePositions' = MapSet(stonePositions, id, pos)
  /\ UNCHANGED <<args, ret, variant, level, appPhase, appPend, config, phase, weldedData,
                 connectedIds, isFullyConnected, pend, beanPositions,
                 connectedTime, clearedTime, clusterPosRef>>
  /\ UNCHANGED histVars

\* onUpdate of a Bean: beanPositions.current[id] = pos.
BeanOnUpdate(id, pos) ==
  /\ beanPositions' = MapSet(beanPositions, id, pos)
  /\ UNCHANGED <<args, ret, variant, level, appPhase, appPend, config, phase, weldedData,
                 connectedIds, isFullyConnected, pend, stonePositions,
                 connectedTime, clearedTime, clusterPosRef>>
  /\ UNCHANGED histVars

\* A rendered Stone (phase GATHERING, i < config.stoneCount) reports.
StoneUpdate ==
  /\ GameManagerExists
  /\ phase = "GATHERING"
  /\ \E id \in 0..(config.stoneCount - 1) :
       \E pos \in StonePos(id) : StoneOnUpdate(id, pos)

\* A rendered Bean (i < config.beanCount) reports.
BeanUpdate ==
  /\ GameManagerExists
  /\ \E id \in 0..(Min(config.beanCount, MaxBeans) - 1), pos \in BeanPos :
       BeanOnUpdate(id, pos)

\* The ClusterTrackerWrapper (phase CLEARING, weldedData set) reports.
ClusterUpdate ==
  /\ GameManagerExists
  /\ phase = "CLEARING"
  /\ IsSome(weldedData)
  /\ \E pos \in ClusterPos : clusterPosRef' = Some(pos)
  /\ UNCHANGED <<args, ret, variant, level, appPhase, appPend, config, phase, weldedData,
                 connectedIds, isFullyConnected, pend, stonePositions,
                 beanPositions, connectedTime, clearedTime>>
  /\ UNCHANGED histVars

\* ------------------------------------------------------------ commit

\* The batch of queued set-state calls, applied to one state value.
Applied(queued, current) == IF IsSome(queued) THEN Val(queued) ELSE current

\* React commits the GameManager's queued set-state calls in one render.
CommitGM ==
  /\ GameManagerExists
  /\ pend # NoPend
  /\ phase' = Applied(pend.phase, phase)
  /\ weldedData' = Applied(pend.weldedData, weldedData)
  /\ connectedIds' = Applied(pend.connectedIds, connectedIds)
  /\ isFullyConnected' = Applied(pend.isFullyConnected, isFullyConnected)
  /\ pend' = NoPend
  /\ UNCHANGED <<args, ret, variant, level, appPhase, appPend, config, stonePositions,
                 beanPositions, connectedTime, clearedTime, clusterPosRef>>
  /\ UNCHANGED histVars

\* -------------------------------------------------------- frame tick

\* The queued set-state calls after the connectedIds update of the gathering
\* branch (part_000): setConnectedIds and setIsFullyConnected are called when
\* the flag or the size of the set differs from the committed one
\* (connectivity is the result of the call, bound as a value).
GatherShown ==
  CHOOSE shown \in
    {IF /\ variant = "part_000"
        /\ \/ connectivity.isFullyConnected # isFullyConnected
           \/ Cardinality(Endpoints(connectivity.connections))
                # Cardinality(connectedIds)
     THEN [pend EXCEPT
             !.connectedIds = Some(Endpoints(connectivity.connections)),
             !.isFullyConnected = Some(connectivity.isFullyConnected)]
     ELSE pend :
       connectivity \in {Connectivity(variant, stonePositions,
                                      Keys(stonePositions))}} : TRUE

\* The gathering branch of useFrame on a tick where ids.length equals
\* config.stoneCount.
GatherCheck(delta) ==
  \E connectivity \in {Connectivity(variant, stonePositions,
                                    Keys(stonePositions))} :
    \E shown \in {GatherShown} :
      \E ct \in {NextConnectedTime(connectedTime,
                                   connectivity.isFullyConnected, delta)} :
        /\ connectedTime' = ct
        /\ connRun' = IF StonesConnected THEN Append(connRun, delta) ELSE <<>>
        /\ IF WeldDue(ct)
           THEN /\ pend' = handleWeld(stonePositions, shown)
                /\ weldCount' = weldCount + 1
           ELSE /\ pend' = shown
                /\ weldCount' = weldCount
        /\ UNCHANGED <<appPend, clearedTime, completeCount, clearRun>>

\* The clearing branch of useFrame.
ClearCheck(delta) ==
  LET cleared == ClearCondition(variant, beanPositions, Val(clusterPosRef),
                                Val(weldedData).radius)
      ct == NextClearedTime(clearedTime, cleared, delta)
  IN /\ clearedTime' = ct
     /\ clearRun' = IF BeansCleared THEN Append(clearRun, delta) ELSE <<>>
     /\ IF CompleteDue(variant, ct)
        THEN /\ appPend' = handleLevelComplete
             /\ completeCount' = completeCount + 1
        ELSE /\ appPend' = appPend
             /\ completeCount' = completeCount
     /\ UNCHANGED <<pend, connectedTime, weldCount, connRun>>

\* A tick on which neither check runs, were it to run the clear accumulator.
SkipCheck_Accumulate(delta) ==
  /\ clearedTime' = clearedTime + delta
  /\ UNCHANGED <<appPend, pend, connectedTime>>
  /\ UNCHANGED histVars

\* A tick on which neither check runs.
SkipCheck(delta) ==
  /\ UNCHANGED <<appPend, pend, connectedTime, clearedTime>>
  /\ UNCHANGED histVars

\* useFrame((state, delta) => ...): one frame of the mounted GameManager, with
\* phase, weldedData, config, connectedIds and isFullyConnected of the last
\* commit.
Tick(delta) ==
  /\ GameManagerExists
  /\ weldCount < MaxRepeat
  /\ completeCount < MaxRepeat
  /\ IF phase = "GATHERING" /\ AllReported(stonePositions, config)
     THEN GatherCheck(delta)
     ELSE IF phase = "CLEARING" /\ IsSome(weldedData) /\ IsSome(clusterPosRef)
          THEN ClearCheck(delta)
          ELSE SkipCheck(delta)
  /\ UNCHANGED <<args, ret, variant, level, appPhase, config, phase, weldedData,
                 connectedIds, isFullyConnected, stonePositions, beanPositions,
                 clusterPosRef>>

FrameTick == \E delta \in Deltas : Tick(delta)

\* ------------------------------------------------------ specification

Next ==
  \/ StartGame
  \/ NextLevel
  \/ AppCommit
  \/ StoneUpdate
  \/ BeanUpdate
  \/ ClusterUpdate
  \/ CommitGM
  \/ FrameTick

Spec == Init /\ [][Next]_vars

\* ------------------------------------------- the open environment

\* The onUpdate handlers called by a collaborator with an id outside the
\* level's expected set: stone-(stoneCount) and bean-(beanCount).
StrayStoneUpdate ==
  /\ GameManagerExists
  /\ StoneOnUpdate(config.stoneCount, <<72, 0, 0>>)

StrayBeanUpdate ==
  /\ GameManagerExists
  /\ BeanOnUpdate(config.beanCount, <<48, 0, 0>>)

NextOpen ==
  \/ Next
  \/ StrayStoneUpdate
  \/ StrayBeanUpdate

SpecOpen == Init /\ [][NextOpen]_vars

\* ------------------------------------------- level reset at any time

\* The level prop of a mounted GameManager changes: the render of the new
\* prop takes the queued set-state calls with it, then the level effect runs.
LevelChange ==
  /\ GameManagerExists
  /\ level < MaxPlayLevel
  /\ level' = level + 1
  /\ LevelEffect(level + 1)
  /\ pend' = NoPend
  /\ weldCount' = 0
  /\ completeCount' = 0
  /\ connRun' = <<>>
  /\ clearRun' = <<>>
  /\ UNCHANGED <<args, ret, variant, appPhase, appPend>>

NextReset ==
  \/ Next
  \/ LevelChange

SpecReset == Init /\ [][NextReset]_vars

\* --------------------------------------- the clear detector on a grid

\* The stones of the welded cluster: 0.3 apart on the x axis, so that the
\* descriptor has center (0,0,0) and radius 0.3 + 1.2 = 1.5 (30).
WeldedStones == [i \in 0..2 |-> <<6 * (i - 1), 0, 0>>]

\* Positions the welded cluster reports: its weld-time center, and a
\* position 0.9 along x and 2 up from it.
ClusterGrid == {<<0, 0, 0>>, <<18, 40, 0>>}

\* Positions a bean reports: inside, on and outside the circle of radius 30
\* around either cluster position, above, at and below the floor height.
BeanGrid == {<<x, y, z>> : x \in {0, 18, 48}, y \in {0, -40, -60},
                           z \in {0, 24}}

\* A controller of level 1 that has welded WeldedStones after three connected
\* ticks of 0.6 and committed the weld; the cluster and the beans have
\* reported.
InitClear ==
  /\ variant \in Variants
  /\ level = 1
  /\ appPhase = "PLAYING"
  /\ appPend = None
  /\ config = generateLevelConfig(1)
  /\ phase = "CLEARING"
  /\ weldedData = Some(WeldDescriptor(WeldedStones))
  /\ connectedIds = IF variant = "part_000" THEN {0, 1, 2} ELSE {}
  /\ isFullyConnected = (variant = "part_000")
  /\ pend = NoPend
  /\ stonePositions = WeldedStones
  /\ beanPositions \in [0..(MaxBeans - 1) -> BeanGrid]
  /\ connectedTime = 36
  /\ clearedTime = 0
  /\ clusterPosRef \in {Some(c) : c \in ClusterGrid}
  /\ weldCount = 1
  /\ completeCount = 0
  /\ connRun = <<12, 12, 12>>
  /\ clearRun = <<>>
  /\ args = None
  /\ ret = None

\* A rendered Bean reports a position of the grid.
BeanMove ==
  /\ GameManagerExists
  /\ \E id \in 0..(Min(config.beanCount, MaxBeans) - 1), pos \in BeanGrid :
       BeanOnUpdate(id, pos)

\* The ClusterTrackerWrapper reports a position of the grid.
ClusterMove ==
  /\ GameManagerExists
  /\ phase = "CLEARING"
  /\ IsSome(weldedData)
  /\ \E pos \in ClusterGrid : clusterPosRef' = Some(pos)
  /\ UNCHANGED <<args, ret, variant, level, appPhase, appPend, config, phase, weldedData,
                 connectedIds, isFullyConnected, pend, stonePositions,
                 beanPositions, connectedTime, clearedTime>>
  /\ UNCHANGED histVars

NextClear ==
  \/ FrameTick
  \/ BeanMove
  \/ ClusterMove
  \/ AppCommit

SpecClear == InitClear /\ [][NextClear]_vars

\* ------------------------------- the connectivity functions, called

\* Ids a direct call may name (0 .. MaxIds-1).
MaxIds == 3

\* Positions of a direct call: on the x axis at 0, 1, 1.4 and 2, and a point
\* at distance exactly 1.85 from the origin off the axis.
PosGrid == {<<0, 0, 0>>, <<20, 0, 0>>, <<28, 0, 0>>, <<40, 0, 0>>,
            <<0, 12, 35>>}

\* Thresholds of a direct call: those of the two controllers.
Thresholds == {28, 37}

\* Id lists without repetition, the empty list and the singletons included.
IdLists ==
  {s \in UNION {[1..n -> 0..(MaxIds - 1)] : n \in 0..MaxIds} :
     \A i, j \in 1..Len(s) : i # j => s[i] # s[j]}

\* Position maps: any subset of the ids has an entry.
PositionMaps == UNION {[D -> PosGrid] : D \in SUBSET (0..(MaxIds - 1))}

\* No game is running; one call with arguments of the sets above is made.
InitConn ==
  /\ variant = "part_000"
  /\ Constructed
  /\ args \in {Some([positions |-> m, ids |-> l, threshold |-> t]) :
                 m \in PositionMaps, l \in IdLists, t \in Thresholds}
  /\ ret = None

CallGetConnectivityData ==
  /\ IsSome(args)
  /\ IsNone(ret)
  /\ ret' = Some([fn |-> "getConnectivityData",
                   threw |-> FALSE,
                   value |-> getConnectivityData(Val(args).positions,
                                                 Val(args).ids,
                                                 Val(args).threshold)])
  /\ UNCHANGED <<args, variant, level, appPhase, appPend>>
  /\ UNCHANGED gmVars
  /\ UNCHANGED histVars

CallCheckConnectivity ==
  /\ IsSome(args)
  /\ IsNone(ret)
  /\ ret' = IF checkConnectivityThrows(Val(args).positions, Val(args).ids)
            THEN Some([fn |-> "checkConnectivity", threw |-> TRUE,
                       value |-> "TypeError"])
            ELSE Some([fn |-> "checkConnectivity", threw |-> FALSE,
                       value |-> checkConnectivity(Val(args).positions,
                                                   Val(args).ids,
                                                   Val(args).threshold)])
  /\ UNCHANGED <<args, variant, level, appPhase, appPend>>
  /\ UNCHANGED gmVars
  /\ UNCHANGED histVars

NextConn ==
  \/ CallGetConnectivityData
  \/ CallCheckConnectivity

SpecConn == InitConn /\ [][NextConn]_vars

\* The ids of a call's list all have a position.
AllPositioned ==
  \A i \in 1..Len(args[1].ids) : args[1].ids[i] \in DOMAIN args[1].positions

\* The ids of a call's list, as a set.
CalledIds == {args[1].ids[i] : i \in 1..Len(args[1].ids)}

\* ------------------------------------------- the weld aggregator, called

\* Stone positions of a direct weld: multiples of (0.6, 1.2, 1.2), a vector
\* of length 1.8, so that the mean of up to four of them and every offset
\* norm is exact in the units of the model.
WeldGrid == {<<12 * k, 24 * k, 24 * k>> : k \in {-1, 0, 1, 2}}

\* Stones at (-1,0,0) and (1,0,0).
WeldExample == [i \in 0..1 |-> <<40 * i - 20, 0, 0>>]

\* Stone maps of a direct weld: any subset of the ids has reported (none
\* included), or the example.
WeldMaps ==
  UNION {[D -> WeldGrid] : D \in SUBSET (0..(MaxIds - 1))} \cup {WeldExample}

\* The orders in which Object.keys may enumerate a map with the ids S (the
\* order in which the stones first reported).
Perms(S) ==
  {p \in [1..Cardinality(S) -> S] :
     \A i, j \in 1..Cardinality(S) : i # j => p[i] # p[j]}

\* A mounted controller of level 1 in GATHERING whose stone map is one of
\* WeldMaps, and an enumeration order of that map.
InitWeld ==
  /\ variant \in Variants
  /\ level = 1
  /\ appPhase = "PLAYING"
  /\ appPend = None
  /\ config = generateLevelConfig(1)
  /\ phase = "GATHERING"
  /\ weldedData = None
  /\ connectedIds = {}
  /\ isFullyConnected = FALSE
  /\ pend = NoPend
  /\ stonePositions \in WeldMaps
  /\ beanPositions = EmptyMap
  /\ connectedTime = 0
  /\ clearedTime = 0
  /\ clusterPosRef = None
  /\ weldCount = 0
  /\ completeCount = 0
  /\ connRun = <<>>
  /\ clearRun = <<>>
  /\ args \in {Some([ids |-> p]) : p \in Perms(DOMAIN stonePositions)}
  /\ ret = None

\* handleWeld() runs on the current stone map.
CallHandleWeld ==
  /\ GameManagerExists
  /\ phase = "GATHERING"
  /\ weldCount = 0
  /\ pend' = handleWeld(stonePositions, pend)
  /\ weldCount' = weldCount + 1
  /\ UNCHANGED <<args, ret, variant, level, appPhase, appPend, config, phase,
                 weldedData, connectedIds, isFullyConnected, stonePositions,
                 beanPositions, connectedTime, clearedTime, clusterPosRef,
                 completeCount, connRun, clearRun>>

\* The descriptor of handleWeld() when the stone map is enumerated in the
\* order args.ids; an empty map returns before building one.
CallHandleWeldInOrder ==
  /\ GameManagerExists
  /\ phase = "GATHERING"
  /\ IsSome(args)
  /\ IsNone(ret)
  /\ Val(args).ids # <<>>
  /\ ret' = Some(WeldDescriptorOf(stonePositions, Val(args).ids))
  /\ UNCHANGED <<args, variant, level, appPhase, appPend>>
  /\ UNCHANGED gmVars
  /\ UNCHANGED histVars

NextWeld ==
  \/ CallHandleWeld
  \/ CallHandleWeldInOrder
  \/ CommitGM

SpecWeld == InitWeld /\ [][NextWeld]_vars

\* --------------------------------------- the level config generator, called

\* Level numbers a direct call passes (1 .. MaxLevelArg): beyond the cap of
\* the bean count (level 23) and of the stone count (level 28).
MaxLevelArg == 60

InitConfig ==
  /\ variant = "part_000"
  /\ Constructed
  /\ args \in {Some([level |-> l]) : l \in 1..MaxLevelArg}
  /\ ret = None

CallGenerateLevelConfig ==
  /\ IsSome(args)
  /\ IsNone(ret)
  /\ ret' = Some(generateLevelConfig(Val(args).level))
  /\ UNCHANGED <<args, variant, level, appPhase, appPend>>
  /\ UNCHANGED gmVars
  /\ UNCHANGED histVars

NextConfig == CallGenerateLevelConfig

SpecConfig == InitConfig /\ [][NextConfig]_vars

\* ------------------------------------- the gathering phase on a grid

\* Positions a stone reports, on the x axis: stone-0 at 0 or 5, stone-1 at 1,
\* the other stones at 2 or 5. At 0, 1, 2 the stones form a chain under
\* either threshold; a stone at 5 is out of reach of those at 0, 1 and 2.
GatherGrid(id) ==
  IF id = 0 THEN {<<0, 0, 0>>, <<100, 0, 0>>}
  ELSE IF id = 1 THEN {<<20, 0, 0>>}
  ELSE {<<40, 0, 0>>, <<52, 0, 0>>, <<100, 0, 0>>}

\* The delta of a frame that took 1.5 s (a stalled or hidden page).
LongDeltas == {30}

\* A rendered Stone reports a position of the grid.
StoneMove ==
  /\ GameManagerExists
  /\ phase = "GATHERING"
  /\ \E id \in 0..(config.stoneCount - 1) :
       \E pos \in GatherGrid(id) : StoneOnUpdate(id, pos)

\* A frame after a long pause of the render loop.
LongFrameTick == \E delta \in LongDeltas : Tick(delta)

NextGather ==
  \/ StartGame
  \/ StoneMove
  \/ FrameTick
  \/ LongFrameTick
  \/ CommitGM

SpecGather == Init /\ [][NextGather]_vars

\* The connectivity state the UI has once the queued set-state calls are
\* committed is that of the current stone map: connectedIds are the stones
\* with another stone within 1.4, isFullyConnected says whether the stones
\* form one component.
UiCurrent ==
  LET ends == {a \in DOMAIN stonePositions :
                 \E b \in DOMAIN stonePositions :
                   /\ a # b
                   /\ Dist2(stonePositions[a], stonePositions[b]) < 28 * 28}
      shownIds == IF pend.connectedIds # <<>>
                  THEN pend.connectedIds[1] ELSE connectedIds
      shownFlag == IF pend.isFullyConnected # <<>>
                   THEN pend.isFullyConnected[1] ELSE isFullyConnected
  IN /\ shownIds = ends
     /\ shownFlag = StonesConnected

\* ---------------------------------------------------------------- claims

\* C1: within one level onLevelComplete is invoked exactly once, on the first
\* CLEARING tick at which clearedTime exceeds the clear threshold and on no
\* later tick, however the frame ticks interleave with the App's commit.
C1_CompleteOnce == completeCount <= 1

\* C2: the controller's phase changes only from GATHERING to CLEARING, at the
\* commit of a weld, or from any phase to GATHERING, when the controller's
\* level number changes; WELDING is never the current phase.
C2_PhaseTransitions ==
  /\ [](phase # "WELDING")
  /\ [][phase' # phase =>
          \/ /\ phase = "GATHERING"
             /\ phase' = "CLEARING"
             /\ weldCount > 0
             /\ config'.levelNumber = config.levelNumber
          \/ /\ phase' = "GATHERING"
             /\ config'.levelNumber # config.levelNumber]_vars

\* C2 witness: a second level reached CLEARING, so both kinds of transition
\* have been taken.
C2_Witness == level = 2 /\ phase = "CLEARING" /\ GameManagerExists

\* C3: handleWeld runs only on a tick on which the stones are fully connected
\* and connectedTime, the sum of the deltas of the unbroken run of
\* fully-connected evaluated ticks ending at this tick, is strictly greater
\* than 1.2; a sum equal to 1.2, or a run broken by a not-connected tick, does
\* not weld.
C3_WeldAfterSustainedRun ==
  [][weldCount' > weldCount =>
       /\ StonesConnected
       /\ Cardinality(DOMAIN stonePositions) = config.stoneCount
       /\ connRun' # <<>>
       /\ connectedTime' = SumSeq(connRun')
       /\ connectedTime' > 24]_vars

\* C3 witness: the first weld of a level came on the third connected tick,
\* after the run had summed to exactly 1.2 without welding.
C3_Witness == weldCount = 1 /\ connRun = <<12, 12, 12>> /\ connectedTime = 36

\* C4: whenever onLevelComplete is invoked, the clearing condition held on
\* every evaluated CLEARING tick since clearedTime was last zero, and the sum
\* of those ticks' deltas strictly exceeds the clear threshold (1.5 in
\* part_000, 1.8 in GameWorld.tsx).
C4_CompleteAfterSustainedRun ==
  [][completeCount' > completeCount =>
       /\ BeansCleared
       /\ clearRun' # <<>>
       /\ clearedTime' = SumSeq(clearRun')
       /\ clearedTime' > (IF variant = "part_000" THEN 30 ELSE 36)]_vars

\* C4 witness: level-complete fired after a run that had summed to exactly
\* the threshold of the variant one tick earlier.
C4_Witness ==
  /\ completeCount = 1
  /\ \/ variant = "part_000" /\ clearRun = <<12, 18, 12>>
     \/ variant = "GameWorld" /\ clearRun = <<18, 18, 12>>

\* C5: on every tick each hysteresis accumulator of the active phase becomes
\* exactly 0 if its guarding condition (the check can be evaluated and its
\* condition holds) is false on that tick, and its previous value plus
\* exactly the tick's delta otherwise. A tick on which the check cannot be
\* evaluated finds the accumulator at 0.
C5_AccumulateOrReset ==
  /\ []((GameManagerExists /\ phase = "GATHERING"
           /\ Cardinality(DOMAIN stonePositions) # config.stoneCount)
          => connectedTime = 0)
  /\ []((GameManagerExists /\ phase = "CLEARING" /\ IsNone(clusterPosRef))
          => clearedTime = 0)
  /\ [][\A d \in Deltas : Tick(d) =>
          /\ phase = "GATHERING" =>
               connectedTime' =
                 IF /\ Cardinality(DOMAIN stonePositions) = config.stoneCount
                    /\ StonesConnected
                 THEN connectedTime + d ELSE 0
          /\ phase = "CLEARING" =>
               clearedTime' =
                 IF IsSome(clusterPosRef) /\ BeansCleared
                 THEN clearedTime + d ELSE 0]_vars

\* C5 witness: both accumulators have grown by two different deltas in turn.
C5_Witness ==
  /\ GameManagerExists
  /\ phase = "CLEARING"
  /\ connRun = <<12, 18>>
  /\ clearRun = <<18, 12>>
  /\ clearedTime = 30

\* C6: in GATHERING, a tick on which the number of stone ids that have
\* reported differs from config.stoneCount skips the connectivity check: no
\* weld occurs, no set-state call is queued, and phase, weldedData and
\* connectedTime are unchanged.
C6_SkipUntilAllReported ==
  [][\A d \in Deltas :
       (/\ Tick(d)
        /\ phase = "GATHERING"
        /\ Cardinality(DOMAIN stonePositions) # config.stoneCount)
       => UNCHANGED <<phase, weldedData, connectedTime, pend, weldCount,
                      connRun>>]_vars

\* C6 witness: a mounted controller in GATHERING with two of the three
\* stones reported.
C6_Witness ==
  /\ GameManagerExists
  /\ phase = "GATHERING"
  /\ Cardinality(DOMAIN stonePositions) = 2
  /\ config.stoneCount = 3

\* C7: in CLEARING, on a tick where fewer beans have reported than
\* config.beanCount, clearedTime is not increased and onLevelComplete is not
\* invoked.
C7_SkipUntilAllBeans ==
  [][\A d \in Deltas :
       (/\ Tick(d)
        /\ phase = "CLEARING"
        /\ Cardinality(DOMAIN beanPositions) < config.beanCount)
       => /\ clearedTime' <= clearedTime
          /\ completeCount' = completeCount]_vars

\* C8: a position callback for an id outside the level's expected set
\* (stone-0 .. stone-(stoneCount-1), bean-0 .. bean-(beanCount-1)) leaves the
\* stone and bean position maps unchanged.
C8_StrayIgnored ==
  [][(StrayStoneUpdate \/ StrayBeanUpdate)
       => UNCHANGED <<stonePositions, beanPositions>>]_vars

\* C9: in every committed state weldedData is null exactly when the phase is
\* GATHERING and non-null exactly when it is CLEARING.
C9_WeldedIffClearing ==
  /\ IsNone(weldedData) <=> phase = "GATHERING"
  /\ IsSome(weldedData) <=> phase = "CLEARING"

\* C9 witness: the weld has been committed.
C9_Witness == GameManagerExists /\ phase = "CLEARING" /\ IsSome(weldedData)

\* C10: between two level resets handleWeld builds a descriptor at most once,
\* even when several frame ticks run before the phase change is committed.
C10_WeldOnce == weldCount <= 1

C12_ClearOnlyWhenTracked ==
  /\ []((phase = "GATHERING" \/ IsNone(clusterPosRef)) => clearedTime = 0)
  /\ [][completeCount' > completeCount =>
          /\ phase = "CLEARING"
          /\ weldCount > 0
          /\ IsSome(clusterPosRef)]_vars
  /\ [][clearedTime' > clearedTime =>
          /\ phase = "CLEARING"
          /\ IsSome(clusterPosRef)
          /\ \E d \in Deltas : Tick(d)]_vars

\* C12 witness: level-complete was called in CLEARING after a weld of the
\* level, the cluster position known.
C12_Witness ==
  /\ GameManagerExists
  /\ completeCount > 0
  /\ weldCount > 0
  /\ phase = "CLEARING"
  /\ IsSome(clusterPosRef)
  /\ clearedTime > 0

\* C13: with no bean in the bean position map the clearing condition is
\* false: every CLEARING tick leaves clearedTime at 0 and does not invoke
\* onLevelComplete, however many ticks pass.
C13_NoBeansNeverClear ==
  /\ []((phase = "CLEARING" /\ DOMAIN beanPositions = {}) => clearedTime = 0)
  /\ [][\A d \in Deltas :
          (Tick(d) /\ phase = "CLEARING" /\ DOMAIN beanPositions = {})
          => /\ clearedTime' = 0
             /\ completeCount' = completeCount
             /\ appPend' = appPend]_vars

\* C13 witness: the clear check runs (CLEARING, descriptor committed, cluster
\* position known) and no bean has reported.
C13_Witness ==
  /\ GameManagerExists
  /\ phase = "CLEARING"
  /\ IsSome(weldedData)
  /\ IsSome(clusterPosRef)
  /\ DOMAIN beanPositions = {}
  /\ clearedTime = 0

\* C14 as stated: on a CLEARING tick a bean counts as inside if and only if
\* the squared planar (x,z) distance between the bean and the cluster's live
\* reported position is strictly less than the squared radius, in both
\* variants; the tick resets clearedTime exactly when some bean is inside or
\* no bean exists.
C14_InsideByPlanarDistanceOnly ==
  [][\A d \in Deltas :
       (Tick(d) /\ phase = "CLEARING" /\ IsSome(clusterPosRef))
       => LET c == clusterPosRef[1]
              r == weldedData[1].radius
              inside(b) == (b[1] - c[1]) * (b[1] - c[1])
                             + (b[3] - c[3]) * (b[3] - c[3]) < r * r
          IN (clearedTime' = 0) <=>
               \/ DOMAIN beanPositions = {}
               \/ \E id \in DOMAIN beanPositions :
                    inside(beanPositions[id])]_vars

\* C14 (amended): on a CLEARING tick a bean counts as inside if and only if
\* the squared planar (x,z) distance between the bean and the cluster's live
\* reported position (not the weld-time center) is strictly less than the
\* squared radius and, in part_000, the bean's height is above -2; a bean
\* exactly on the circle is outside, and heights do not enter the distance.
\* The tick resets clearedTime exactly when some bean is inside or no bean
\* exists, and adds the delta otherwise.
C14_InsideTest ==
  [][\A d \in Deltas :
       (Tick(d) /\ phase = "CLEARING" /\ IsSome(clusterPosRef))
       => LET c == clusterPosRef[1]
              r == weldedData[1].radius
              inside(b) ==
                /\ (b[1] - c[1]) * (b[1] - c[1])
                     + (b[3] - c[3]) * (b[3] - c[3]) < r * r
                /\ (variant = "part_000" => b[2] > -40)
              blocked == \/ DOMAIN beanPositions = {}
                         \/ \E id \in DOMAIN beanPositions :
                              inside(beanPositions[id])
          IN clearedTime' = IF blocked THEN 0 ELSE clearedTime + d]_vars

\* C14 witness: the cluster reports a position away from the weld-time
\* center and 2 above the bean, the bean is exactly on the circle around the
\* reported position (and inside the circle around the weld-time center), and
\* clearedTime has grown.
C14_Witness ==
  /\ GameManagerExists
  /\ phase = "CLEARING"
  /\ clusterPosRef = <<(<<18, 40, 0>>)>>
  /\ beanPositions[0] = <<0, 0, 24>>
  /\ clearedTime > 0

\* C15: in part_000 a bean at or below the floor height (y <= -2) never counts
\* as inside, whatever its planar distance to the cluster: on a CLEARING tick
\* where every bean that is within the radius is at or below the floor, and
\* at least one bean exists, clearedTime grows by the delta (such beans
\* neither reset clearedTime nor block level completion, and they count as
\* existing beans).
C15_FallenBeanNotInside ==
  [][\A d \in Deltas :
       (/\ Tick(d)
        /\ variant = "part_000"
        /\ phase = "CLEARING"
        /\ IsSome(clusterPosRef)
        /\ DOMAIN beanPositions # {}
        /\ \A id \in DOMAIN beanPositions :
             LET b == beanPositions[id]
                 c == clusterPosRef[1]
                 r == weldedData[1].radius
             IN \/ b[2] <= -40
                \/ (b[1] - c[1]) * (b[1] - c[1])
                     + (b[3] - c[3]) * (b[3] - c[3]) >= r * r)
       => /\ clearedTime' = clearedTime + d
          /\ (clearedTime + d > 30 => completeCount' = completeCount + 1)]_vars

\* C15 witness: in part_000 level-complete was called while the only bean
\* sat at the cluster's reported planar position, exactly at the floor height.
C15_Witness ==
  /\ variant = "part_000"
  /\ phase = "CLEARING"
  /\ clusterPosRef = <<(<<0, 0, 0>>)>>
  /\ DOMAIN beanPositions = {0}
  /\ beanPositions[0] = <<0, -40, 0>>
  /\ clearedTime > 30
  /\ completeCount = 1

\* C16: for a list of two or more distinct ids that all have a position, the
\* flag returned by getConnectivityData and by checkConnectivity is true if
\* and only if every id of the list is reachable from ids[0] in the graph
\* whose edges are the pairs of listed ids at Euclidean distance strictly
\* less than the threshold; a pair at distance equal to the threshold is not
\* an edge.
C16_FlagIffOneComponent ==
  (IsSome(ret) /\ Len(args[1].ids) >= 2 /\ AllPositioned)
  => LET r == ret[1]
         pos == args[1].positions
         t == args[1].threshold
         listed == [i \in CalledIds |-> pos[i]]
         flag == IF r.fn = "getConnectivityData"
                 THEN r.value.isFullyConnected ELSE r.value
     IN /\ ~r.threw
        /\ flag <=> (Reachable({args[1].ids[1]}, listed, t) = CalledIds)

\* C16 witness: three stones, two of them exactly one threshold apart (no
\* edge) and both joined through the third: the flag is true.
C16_Witness ==
  /\ IsSome(ret)
  /\ ret[1].fn = "checkConnectivity"
  /\ args[1].threshold = 28
  /\ args[1].ids = <<0, 1, 2>>
  /\ DOMAIN args[1].positions = {0, 1, 2}
  /\ args[1].positions[0] = <<0, 0, 0>>
  /\ args[1].positions[1] = <<28, 0, 0>>
  /\ args[1].positions[2] = <<20, 0, 0>>
  /\ ~ret[1].threw
  /\ ret[1].value = TRUE

\* C17: for a list of two or more distinct ids that all have a position, the
\* connections returned by getConnectivityData contain a pair of a and b if
\* and only if a and b are distinct listed ids at distance less than the
\* threshold, contain every such unordered pair exactly once and contain no
\* self-pair.
C17_ConnectionsExact ==
  (/\ IsSome(ret)
   /\ ret[1].fn = "getConnectivityData"
   /\ Len(args[1].ids) >= 2
   /\ AllPositioned)
  => LET conns == ret[1].value.connections
         pos == args[1].positions
         t == args[1].threshold
         close(a, b) ==
           (pos[a][1] - pos[b][1]) * (pos[a][1] - pos[b][1])
             + (pos[a][2] - pos[b][2]) * (pos[a][2] - pos[b][2])
             + (pos[a][3] - pos[b][3]) * (pos[a][3] - pos[b][3]) < t * t
     IN /\ \A k \in 1..Len(conns) :
             /\ conns[k][1] \in CalledIds
             /\ conns[k][2] \in CalledIds
             /\ conns[k][1] # conns[k][2]
             /\ close(conns[k][1], conns[k][2])
        /\ \A a, b \in CalledIds :
             (a # b /\ close(a, b))
             => Cardinality({k \in 1..Len(conns) :
                               {conns[k][1], conns[k][2]} = {a, b}}) = 1

\* C17 witness: stones at (0,0,0), (1,0,0), (2,0,0) with threshold 1.4 gave
\* exactly the edges (0,1) and (1,2).
C17_Witness ==
  /\ IsSome(ret)
  /\ ret[1].fn = "getConnectivityData"
  /\ args[1].threshold = 28
  /\ args[1].ids = <<0, 1, 2>>
  /\ DOMAIN args[1].positions = {0, 1, 2}
  /\ args[1].positions[0] = <<0, 0, 0>>
  /\ args[1].positions[1] = <<20, 0, 0>>
  /\ args[1].positions[2] = <<40, 0, 0>>
  /\ ret[1].value.connections = <<(<<0, 1>>), (<<1, 2>>)>>
  /\ ret[1].value.isFullyConnected = TRUE

\* C18: getConnectivityData returns isFullyConnected = false with no
\* connections for an empty id list and isFullyConnected = true with no
\* connections for a single id, whatever the position map holds (also when
\* it has no entry for the id), and does not throw.
C18_EmptyAndSingle ==
  (IsSome(ret) /\ ret[1].fn = "getConnectivityData" /\ Len(args[1].ids) <= 1)
  => /\ ~ret[1].threw
     /\ ret[1].value.connections = <<>>
     /\ ret[1].value.isFullyConnected = (Len(args[1].ids) = 1)

\* C18 witness: the call with the empty id list and an empty position map
\* has returned.
C18_Witness ==
  /\ IsSome(ret)
  /\ ret[1].fn = "getConnectivityData"
  /\ args[1].ids = <<>>
  /\ DOMAIN args[1].positions = {}
  /\ ret[1].value.isFullyConnected = FALSE

\* C19: checkConnectivity(positions, [], threshold) of src/utils.ts returns
\* false and does not throw.
C19_EmptyNotConnected ==
  (IsSome(ret) /\ ret[1].fn = "checkConnectivity" /\ Len(args[1].ids) = 0)
  => /\ ~ret[1].threw
     /\ ret[1].value = FALSE

\* C20: a weld over a non-empty stone position map emits a descriptor whose
\* center is the arithmetic mean of the reported stone positions, with one
\* stones entry per reported stone, its offset the stone's position minus
\* the center, rotation (0,0,0) and scale 1, and whose radius is the largest
\* offset norm plus 1.2. The descriptor is queued by handleWeld and is the
\* same once committed.
C20_WeldDescriptor ==
  LET m == stonePositions
      n == Cardinality(DOMAIN m)
      ids == SortedSeq(DOMAIN m)
      sum(k) == SumSeq([i \in 1..n |-> m[ids[i]][k]])
      norm2(o) == o[1] * o[1] + o[2] * o[2] + o[3] * o[3]
      matches(d) ==
        /\ \A k \in 1..3 : n * d.center[k] = sum(k)
        /\ DOMAIN d.stones = 1..n
        /\ \A i \in 1..n :
             /\ \A k \in 1..3 : d.center[k] + d.stones[i].offset[k] = m[ids[i]][k]
             /\ d.stones[i].rotation = <<0, 0, 0>>
             /\ d.stones[i].scale = 1
        /\ d.radius >= 24
        /\ \A i \in 1..n : norm2(d.stones[i].offset) <= (d.radius - 24) * (d.radius - 24)
        /\ \E i \in 1..n : norm2(d.stones[i].offset) = (d.radius - 24) * (d.radius - 24)
  IN (weldCount > 0 /\ n > 0)
     => /\ pend.weldedData # <<>> \/ weldedData # <<>>
        /\ pend.weldedData # <<>> => matches(pend.weldedData[1][1])
        /\ weldedData # <<>> => matches(weldedData[1])

\* C20 witness: the weld of stones at (-1,0,0) and (1,0,0) is committed:
\* center (0,0,0), offsets (-1,0,0) and (1,0,0), radius 2.2.
C20_Witness ==
  /\ stonePositions = WeldExample
  /\ phase = "CLEARING"
  /\ weldedData # <<>>
  /\ weldedData[1].center = <<0, 0, 0>>
  /\ weldedData[1].stones[1].offset = <<-20, 0, 0>>
  /\ weldedData[1].stones[2].offset = <<20, 0, 0>>
  /\ weldedData[1].radius = 44

\* C21: the center and the radius computed by handleWeld do not depend on the
\* order in which the stone ids are enumerated: every enumeration order of
\* the same stone map yields the same center, the same radius and the same
\* multiset of offsets.
C21_WeldOrderIndependent ==
  ret # <<>>
  => \A p \in Perms(DOMAIN stonePositions) :
       LET d == WeldDescriptorOf(stonePositions, p)
           e == ret[1]
           n == Cardinality(DOMAIN stonePositions)
       IN /\ d.center = e.center
          /\ d.radius = e.radius
          /\ \A i \in 1..n :
               Cardinality({j \in 1..n : d.stones[j].offset = e.stones[i].offset})
                 = Cardinality({j \in 1..n : e.stones[j].offset = e.stones[i].offset})

\* C21 witness: three stones at three different places were enumerated in
\* the order stone-0, stone-2, stone-1, the stone farthest from the center
\* first.
C21_Witness ==
  /\ ret # <<>>
  /\ args[1].ids = <<0, 2, 1>>
  /\ stonePositions[0] = <<24, 48, 48>>
  /\ stonePositions[1] = <<0, 0, 0>>
  /\ stonePositions[2] = <<-12, -24, -24>>
  /\ ret[1].center = <<4, 8, 8>>
  /\ ret[1].stones[1].offset = <<20, 40, 40>>
  /\ ret[1].stones[2].offset = <<-16, -32, -32>>
  /\ ret[1].radius = 60 + 24

\* C22: every descriptor produced by handleWeld has a radius of at least 1.2
\* and every stone's offset norm is at most radius - 1.2, so every welded
\* stone lies strictly inside the sphere of that radius around the center.
C22_RadiusCoversStones ==
  LET norm2(o) == o[1] * o[1] + o[2] * o[2] + o[3] * o[3]
      covers(d) ==
        /\ d.radius >= 24
        /\ \A i \in DOMAIN d.stones :
             /\ norm2(d.stones[i].offset) <= (d.radius - 24) * (d.radius - 24)
             /\ norm2(d.stones[i].offset) < d.radius * d.radius
  IN /\ pend.weldedData # <<>> => covers(pend.weldedData[1][1])
     /\ weldedData # <<>> => covers(weldedData[1])
     /\ ret # <<>> => covers(ret[1])

\* C22 witness: a committed descriptor of three stones whose farthest stone
\* is exactly radius - 1.2 from the center.
C22_Witness ==
  /\ weldedData # <<>>
  /\ Len(weldedData[1].stones) = 3
  /\ weldedData[1].radius = 60 + 24
  /\ weldedData[1].stones[1].offset = <<20, 40, 40>>

\* C23: for every level number l >= 1, generateLevelConfig(l) returns
\* levelNumber = l, stoneCount = min(3 + floor((l-1)/3), 12), beanCount =
\* min(15 + (l-1)*4, 100) and 2 bean types if l >= 16, else 1; level 1 gives
\* (3, 15, 1) and level 16 gives (8, 75, 2).
C23_LevelConfig ==
  ret # <<>>
  => LET l == args[1].level
         c == ret[1]
         q == c.stoneCount - 3
     IN /\ c.levelNumber = l
        /\ c.stoneCount \in 3..12
        /\ c.stoneCount < 12 => (3 * q <= l - 1 /\ l - 1 < 3 * q + 3)
        /\ c.stoneCount = 12 => l - 1 >= 27
        /\ c.beanCount <= 100
        /\ c.beanCount < 100 => c.beanCount = 15 + (l - 1) * 4
        /\ c.beanCount = 100 => 15 + (l - 1) * 4 >= 100
        /\ c.beanTypes = 2 <=> l >= 16
        /\ c.beanTypes = 1 <=> l < 16
        /\ l = 1 => (c.stoneCount = 3 /\ c.beanCount = 15 /\ c.beanTypes = 1)
        /\ l = 16 => (c.stoneCount = 8 /\ c.beanCount = 75 /\ c.beanTypes = 2)

\* C23 witness: the call for level 16 has returned (8, 75, 2).
C23_Witness ==
  /\ ret # <<>>
  /\ args[1].level = 16
  /\ ret[1] = [levelNumber |-> 16, stoneCount |-> 8, beanCount |-> 75,
               beanTypes |-> 2]

\* ----------------------------------------------------- the App alone

\* The mounted GameManager calls onLevelComplete (useFrame, clearing branch);
\* here at any moment of its life, whatever the stones and beans do.
LevelCompleteCall ==
  /\ GameManagerExists
  /\ completeCount < MaxRepeat
  /\ appPend' = handleLevelComplete
  /\ completeCount' = completeCount + 1
  /\ UNCHANGED <<args, ret, variant, level, appPhase>>
  /\ UNCHANGED gmVars
  /\ UNCHANGED <<weldCount, connRun, clearRun>>

NextApp ==
  \/ StartGame
  \/ LevelCompleteCall
  \/ AppCommit
  \/ nextLevel

SpecApp == Init /\ [][NextApp]_vars

\* ------------------------------------------------- progress of a level

\* A frame of the steady frame rate (the smallest delta of the model).
SteadyTick == Tick(CHOOSE d \in Deltas : \A e \in Deltas : d <= e)

\* One level under its scheduling: while a GameManager is mounted the render
\* loop keeps calling its useFrame callback, and React commits the set-state
\* calls that are queued. Stones, beans and the cluster report at any time.
NextLive ==
  \/ StartGame
  \/ StoneUpdate
  \/ BeanUpdate
  \/ ClusterUpdate
  \/ CommitGM
  \/ SteadyTick
  \/ AppCommit

SpecLive ==
  /\ Init
  /\ [][NextLive]_vars
  /\ WF_vars(SteadyTick)
  /\ WF_vars(CommitGM)

\* ------------------------------------- the two connectivity functions

\* Positions of a call made to both functions: a chain on the x axis.
AgreeGrid == {<<0, 0, 0>>, <<20, 0, 0>>, <<40, 0, 0>>}

\* Id lists of a call, repetitions and the empty list included.
AnyIdLists == UNION {[1..n -> 0..(MaxIds - 1)] : n \in 0..MaxIds}

\* One call with a position for every id.
InitAgree ==
  /\ variant = "part_000"
  /\ Constructed
  /\ args \in {Some([positions |-> m, ids |-> l, threshold |-> t]) :
                 m \in [0..(MaxIds - 1) -> AgreeGrid], l \in AnyIdLists,
                 t \in Thresholds}
  /\ ret = None

SpecAgree == InitAgree /\ [][NextConn]_vars

\* ------------------------------------------- ids without a position

\* One call whose position map has an entry for any subset of the ids, the
\* id list with repetitions.
InitTolerate ==
  /\ variant = "part_000"
  /\ Constructed
  /\ args \in {Some([positions |-> m, ids |-> l, threshold |-> t]) :
                 m \in UNION {[D -> AgreeGrid] : D \in SUBSET (0..(MaxIds - 1))},
                 l \in AnyIdLists, t \in Thresholds}
  /\ ret = None

SpecTolerate == InitTolerate /\ [][NextConn]_vars

\* ------------------------------------------------------ startGame alone

\* The App in MENU, about to run one copy of startGame in one browser.
InitStart ==
  /\ variant \in Variants
  /\ Constructed
  /\ args \in {Some([app |-> a, motion |-> m, fullscreen |-> f]) :
                 a \in {b \in Apps : (b = "GameWorld.tsx") <=> (variant = "GameWorld")},
                 m \in MotionOutcomes, f \in FullscreenOutcomes}
  /\ ret = None

\* The click on the start button and the whole async function, its
\* set-state calls committed.
CallStartGame ==
  /\ appPhase = "MENU"
  /\ IsNone(ret)
  /\ \E r \in {startGame(Val(args).app, Val(args).motion, Val(args).fullscreen)} :
       /\ ret' = Some(r)
       /\ IF IsSome(r.phase)
          THEN /\ appPhase' = Val(r.phase)
               /\ MountGameManager(level)
          ELSE /\ appPhase' = appPhase
               /\ UNCHANGED gmVars
               /\ UNCHANGED histVars
  /\ UNCHANGED <<args, variant, level, appPend>>

NextStart ==
  \/ CallStartGame
  \/ LevelCompleteCall
  \/ AppCommit

SpecStart == InitStart /\ [][NextStart]_vars

\* C24: after every evaluated GATHERING tick of part_000 the connectivity
\* state handed to the UI is current: connectedIds is the set of stones that
\* are an endpoint of an edge of that tick's proximity graph and
\* isFullyConnected is that tick's connectivity flag. A tick that changes
\* nothing is covered by the second conjunct: a state in which an evaluated
\* tick leaves everything as it is (the stones are not connected,
\* connectedTime is 0 already and the tick queues no set-state call).
C24_UiConnectivityCurrent ==
  /\ [][\A d \in Deltas \cup LongDeltas :
          (/\ Tick(d)
           /\ variant = "part_000"
           /\ phase = "GATHERING"
           /\ Cardinality(DOMAIN stonePositions) = config.stoneCount)
          => UiCurrent']_vars
  /\ []((/\ variant = "part_000"
         /\ GameManagerExists
         /\ phase = "GATHERING"
         /\ Cardinality(DOMAIN stonePositions) = config.stoneCount
         /\ weldCount < MaxRepeat
         /\ ~StonesConnected
         /\ connectedTime = 0
         /\ GatherShown = pend)
        => UiCurrent)

\* C25: the controller is ticked only while the App phase is PLAYING.
\* isPaused is true exactly when the App phase is not PLAYING, a GameManager
\* exists only while not paused, a tick is taken only in PLAYING, and a step
\* taken in MENU or LEVEL_COMPLETE welds nothing, reports no level-complete,
\* leaves the controller phase alone and changes an accumulator only by
\* mounting the GameManager of the level that starts (both become 0 and the
\* App phase becomes PLAYING).
C25_TickedOnlyWhilePlaying ==
  /\ [](IsPaused <=> appPhase # "PLAYING")
  /\ [](GameManagerExists => (~IsPaused /\ appPhase = "PLAYING"))
  /\ [][\A d \in Deltas : Tick(d) => appPhase = "PLAYING"]_vars
  /\ [][appPhase # "PLAYING" =>
          /\ weldCount' <= weldCount
          /\ completeCount' <= completeCount
          /\ appPend' = None
          /\ (connectedTime' # connectedTime \/ clearedTime' # clearedTime
               \/ phase' # phase \/ weldedData' # weldedData)
              => (/\ appPhase' = "PLAYING"
                  /\ connectedTime' = 0
                  /\ clearedTime' = 0
                  /\ phase' = "GATHERING"
                  /\ weldedData' = None)]_vars

\* C25 witness: the App is in LEVEL_COMPLETE after a level whose clearing
\* timer passed 1.5 s and whose level-complete was reported; the GameManager
\* is gone.
C25_Witness ==
  /\ appPhase = "LEVEL_COMPLETE"
  /\ IsPaused
  /\ ~GameManagerExists
  /\ phase = "CLEARING"
  /\ clearedTime > 30
  /\ completeCount >= 1

\* C26: the level number is always in 1..20 and changes only in a step taken
\* from LEVEL_COMPLETE: below level 20 to level + 1 with the App phase
\* PLAYING, at level 20 to 1 with the App phase MENU; and every step that
\* leaves LEVEL_COMPLETE changes the level in this way.
C26_LevelInRange ==
  /\ [](level \in 1..TOTAL_LEVELS)
  /\ [][(level' # level \/ (appPhase = "LEVEL_COMPLETE" /\ appPhase' # appPhase))
        => /\ appPhase = "LEVEL_COMPLETE"
           /\ IF level < 20
              THEN level' = level + 1 /\ appPhase' = "PLAYING"
              ELSE level' = 1 /\ appPhase' = "MENU"]_vars

\* C26 witness: level 20 was played (its config is still there) and nextLevel
\* wrapped to level 1 and MENU.
C26_Witness ==
  /\ level = 1
  /\ appPhase = "MENU"
  /\ config.levelNumber = TOTAL_LEVELS

\* C27: a single fully-connected frame is never enough to weld. For every
\* tick delta, a tick that runs handleWeld is neither the first evaluated
\* tick of the level nor a tick whose preceding evaluated tick found the
\* stones not fully connected: the run of connected evaluated ticks before
\* it is not empty.
C27_NoWeldOnSingleFrame ==
  [][\A d \in Deltas \cup LongDeltas :
       (Tick(d) /\ weldCount' > weldCount) => connRun # <<>>]_vars

\* C28: a frame tick, in either phase, leaves the stone map, the bean map and
\* the cluster position unchanged. A step that changes one of them is either
\* the level reset (both maps empty, no cluster position, phase GATHERING,
\* both accumulators 0) or one position callback: one id of one map gets a
\* position, every other entry of that map and the two other values stay as
\* they are, or the cluster position is set and the two maps stay.
C28_TickLeavesPositions ==
  [][LET Reset == /\ stonePositions' = EmptyMap
                  /\ beanPositions' = EmptyMap
                  /\ clusterPosRef' = None
                  /\ phase' = "GATHERING"
                  /\ connectedTime' = 0
                  /\ clearedTime' = 0
         OneEntry(old, new) ==
           \E id \in DOMAIN new :
             /\ DOMAIN new = DOMAIN old \cup {id}
             /\ \A j \in DOMAIN old \ {id} : new[j] = old[j]
     IN /\ \A d \in Deltas :
            Tick(d) => UNCHANGED <<stonePositions, beanPositions, clusterPosRef>>
        /\ stonePositions' # stonePositions =>
             \/ Reset
             \/ /\ OneEntry(stonePositions, stonePositions')
                /\ UNCHANGED <<beanPositions, clusterPosRef>>
        /\ beanPositions' # beanPositions =>
             \/ Reset
             \/ /\ OneEntry(beanPositions, beanPositions')
                /\ UNCHANGED <<stonePositions, clusterPosRef>>
        /\ clusterPosRef' # clusterPosRef =>
             \/ Reset
             \/ /\ IsSome(clusterPosRef')
                /\ UNCHANGED <<stonePositions, beanPositions>>]_vars

\* C28 witness: in CLEARING all stones and a bean have reported, the cluster
\* has a position and ticks have accumulated cleared time; the stone map
\* still holds every stone.
C28_Witness ==
  /\ GameManagerExists
  /\ phase = "CLEARING"
  /\ Cardinality(DOMAIN stonePositions) = config.stoneCount
  /\ DOMAIN beanPositions # {}
  /\ IsSome(clusterPosRef)
  /\ clearedTime > 0
  /\ connectedTime > WeldThreshold

\* C29: a tick that welds queues a descriptor with exactly config.stoneCount
\* stones, built from the stone positions of that tick (center plus the i-th
\* offset is the position of the i-th reported stone), and on these positions
\* the stones form one connected proximity graph under the variant's
\* threshold (1.4 in part_000, 1.85 in GameWorld.tsx).
C29_WeldOnConnectedSnapshot ==
  [][\A d \in Deltas \cup LongDeltas :
       (Tick(d) /\ weldCount' > weldCount) =>
         /\ pend'.phase = <<"CLEARING">>
         /\ pend'.weldedData # <<>>
         /\ LET desc == pend'.weldedData[1][1]
                ids == SortedSeq(DOMAIN stonePositions)
            IN /\ Len(desc.stones) = config.stoneCount
               /\ Len(ids) = config.stoneCount
               /\ \A i \in 1..Len(ids) : \A k \in 1..3 :
                    desc.center[k] + desc.stones[i].offset[k]
                      = stonePositions[ids[i]][k]
         /\ StonesConnected]_vars

\* C29 witness: in GameWorld.tsx the stones at 0, 1 and 2.6 on the x axis
\* (1.6 apart at most: connected under 1.85 only) have been welded, the
\* descriptor of three stones around (1.2, 0, 0) is queued or committed.
C29_Witness ==
  /\ variant = "GameWorld"
  /\ weldCount > 0
  /\ stonePositions = [i \in 0..2 |-> IF i = 0 THEN <<0, 0, 0>>
                                      ELSE IF i = 1 THEN <<20, 0, 0>>
                                      ELSE <<52, 0, 0>>]
  /\ \/ pend.weldedData # <<>> /\ pend.weldedData[1][1].center = <<24, 0, 0>>
     \/ weldedData # <<>> /\ weldedData[1].center = <<24, 0, 0>>

\* C30: progress under sustained conditions. With ticks that keep occurring,
\* the state "GATHERING, all config.stoneCount stones reported and fully
\* connected" cannot last forever: the phase becomes CLEARING. And the state
\* "CLEARING, cluster position reported, at least one bean reported, no bean
\* inside the radius, onLevelComplete not invoked yet" cannot last forever
\* either (as long as the tick bound of the model is not reached).
C30_Progress ==
  /\ []<>~(/\ GameManagerExists
           /\ phase = "GATHERING"
           /\ Cardinality(DOMAIN stonePositions) = config.stoneCount
           /\ StonesConnected)
  /\ []<>~(/\ GameManagerExists
           /\ phase = "CLEARING"
           /\ IsSome(weldedData)
           /\ IsSome(clusterPosRef)
           /\ BeansCleared
           /\ completeCount = 0
           /\ weldCount < MaxRepeat)

\* C30 witness: a level went from sustained connectivity to CLEARING and,
\* after more than the clear threshold of cleared ticks, onLevelComplete
\* has been invoked.
C30_Witness ==
  /\ GameManagerExists
  /\ phase = "CLEARING"
  /\ IsSome(clusterPosRef)
  /\ BeansCleared
  /\ SumSeq(connRun) > WeldThreshold
  /\ SumSeq(clearRun) > ClearThreshold(variant)
  /\ completeCount = 1

\* C31: the App phase moves only MENU -> PLAYING, PLAYING -> LEVEL_COMPLETE,
\* LEVEL_COMPLETE -> PLAYING (level below 20) or LEVEL_COMPLETE -> MENU
\* (level 20); it is never GAME_OVER; a call of handleLevelComplete, the
\* first or a repeated one, changes neither the phase shown nor the level and
\* queues LEVEL_COMPLETE, so that the commit after any number of calls shows
\* LEVEL_COMPLETE with the level unchanged; and LEVEL_COMPLETE is entered
\* from PLAYING only.
C31_AppPhaseMachine ==
  /\ [](appPhase \in GamePhase \ {"GAME_OVER"})
  /\ [][appPhase' # appPhase =>
          \/ appPhase = "MENU" /\ appPhase' = "PLAYING"
          \/ appPhase = "PLAYING" /\ appPhase' = "LEVEL_COMPLETE"
          \/ appPhase = "LEVEL_COMPLETE" /\ appPhase' = "PLAYING" /\ level < 20
          \/ appPhase = "LEVEL_COMPLETE" /\ appPhase' = "MENU" /\ level >= 20]_vars
  /\ [][completeCount' > completeCount =>
          /\ appPhase = "PLAYING"
          /\ appPhase' = appPhase
          /\ level' = level
          /\ appPend' = <<"LEVEL_COMPLETE">>]_vars
  /\ [][(appPend # <<>> /\ appPend' = <<>>) =>
          /\ appPhase = "PLAYING"
          /\ appPhase' = "LEVEL_COMPLETE"
          /\ level' = level]_vars

\* C31 witness: handleLevelComplete was called twice in level 20 and the
\* App shows LEVEL_COMPLETE, still at level 20.
C31_Witness ==
  /\ appPhase = "LEVEL_COMPLETE"
  /\ completeCount = 2
  /\ level = TOTAL_LEVELS
  /\ config.levelNumber = TOTAL_LEVELS
  /\ appPend = <<>>

\* C32: startGame always ends with the App phase PLAYING and the level
\* unchanged, whatever the outcome of the device-motion permission request
\* (granted, denied, throws, API absent) and of the fullscreen request.
C32_StartGameAlwaysPlays ==
  [][(ret = <<>> /\ ret' # <<>>)
       => (appPhase' = "PLAYING" /\ level' = level)]_vars

\* C33: for every non-empty id list whose ids all have a position, and every
\* threshold, checkConnectivity returns the boolean that getConnectivityData
\* returns as isFullyConnected, and neither throws; on the empty list they
\* differ.
C33_ImplementationsAgree ==
  (IsSome(ret) /\ AllPositioned)
  => LET a == args[1]
         flag == IF ret[1].fn = "getConnectivityData"
                 THEN ret[1].value.isFullyConnected ELSE ret[1].value
         other == IF ret[1].fn = "getConnectivityData"
                  THEN checkConnectivity(a.positions, a.ids, a.threshold)
                  ELSE getConnectivityData(a.positions, a.ids,
                                           a.threshold).isFullyConnected
     IN /\ ~ret[1].threw
        /\ a.ids # <<>> => flag = other
        /\ a.ids = <<>> => flag # other

\* C33 witness: checkConnectivity has returned true for the chain 0 - 1 - 2
\* listed from its middle (stone-1, stone-0, stone-2): the stack visits
\* stone-2 before stone-0, the queue stone-0 before stone-2.
C33_Witness ==
  /\ IsSome(ret)
  /\ ret[1].fn = "checkConnectivity"
  /\ args[1].ids = <<1, 0, 2>>
  /\ args[1].threshold = 28
  /\ args[1].positions[0] = <<0, 0, 0>>
  /\ args[1].positions[1] = <<20, 0, 0>>
  /\ args[1].positions[2] = <<40, 0, 0>>
  /\ ~ret[1].threw
  /\ ret[1].value = TRUE

C35_MissingPositionTolerated ==
  (/\ IsSome(ret)
   /\ ret[1].fn = "getConnectivityData"
   /\ Len(args[1].ids) >= 2
   /\ ~AllPositioned)
  => /\ ~ret[1].threw
     /\ ret[1].value.isFullyConnected = FALSE
     /\ \A k \in 1..Len(ret[1].value.connections) :
          /\ ret[1].value.connections[k][1] \in DOMAIN args[1].positions
          /\ ret[1].value.connections[k][2] \in DOMAIN args[1].positions

\* C35 witness: id 1 has no position, ids 0 and 2 are within the threshold:
\* the call returned their edge alone and the flag false.
C35_Witness ==
  /\ IsSome(ret)
  /\ ret[1].fn = "getConnectivityData"
  /\ args[1].ids = <<0, 1, 2>>
  /\ DOMAIN args[1].positions = {0, 2}
  /\ args[1].threshold = 28
  /\ ~ret[1].threw
  /\ ret[1].value.connections = <<(<<0, 2>>)>>
  /\ ret[1].value.isFullyConnected = FALSE

====
